---- MODULE Spec2Model ----
(***************************************************************************)
(* pie, the andstore package manager (src/src/main.rs): the install and    *)
(* uninstall transactions, the dependency resolver, the conflict handler,  *)
(* the content locator and the installed-package ledger.                   *)
(*                                                                         *)
(* Strings the code inspects (package names, queries, content paths,       *)
(* min_api, prompt input) are sequences of one-character strings, so that  *)
(* ends_with, trim, to_lowercase and parse are computed as the code        *)
(* computes them.  Strings the code only compares for equality (versions,  *)
(* urls, hex digests, architecture identifiers) are TLA+ strings.          *)
(***************************************************************************)
EXTENDS Integers, Sequences, FiniteSets, TLC

VARIABLES
    repo,      \* the catalog served at REPO_URL: package name -> Package
    arch,      \* what getprop ro.product.cpu.abi answers on this device
    apiLevel,  \* what getprop ro.build.version.sdk answers on this device
    disk,      \* PIE_DATA/installed.json: package name -> InstalledPackage
    fs,        \* the content paths present under ANDSTORE_ROOT
    tx         \* per invocation of the tool: its position and its locals

vars == <<repo, arch, apiLevel, disk, fs, tx>>

(***************************************************************************)
(* Strings                                                                 *)
(***************************************************************************)
EndsWith(s, suffix) ==
    /\ Len(suffix) <= Len(s)
    /\ SubSeq(s, Len(s) - Len(suffix) + 1, Len(s)) = suffix

IsWhitespace(ch) == ch \in {" ", "\t", "\n", "\r"}

RECURSIVE TrimStart(_)
TrimStart(s) ==
    IF s # <<>> /\ IsWhitespace(Head(s)) THEN TrimStart(Tail(s)) ELSE s

RECURSIVE TrimEnd(_)
TrimEnd(s) ==
    IF s # <<>> /\ IsWhitespace(s[Len(s)])
    THEN TrimEnd(SubSeq(s, 1, Len(s) - 1))
    ELSE s

Trim(s) == TrimEnd(TrimStart(s))

LowerChar(ch) ==
    CASE ch = "N" -> "n"
      [] ch = "O" -> "o"
      [] ch = "Y" -> "y"
      [] OTHER -> ch

ToLowercase(s) == [i \in 1..Len(s) |-> LowerChar(s[i])]

Digits == {"0", "1", "2", "3", "4", "5", "6", "7", "8", "9"}

DigitValue(ch) ==
    CASE ch = "0" -> 0 [] ch = "1" -> 1 [] ch = "2" -> 2 [] ch = "3" -> 3
      [] ch = "4" -> 4 [] ch = "5" -> 5 [] ch = "6" -> 6 [] ch = "7" -> 7
      [] ch = "8" -> 8 [] ch = "9" -> 9

RECURSIVE DecimalValue(_)
DecimalValue(s) ==
    IF s = <<>> THEN 0
    ELSE 10 * DecimalValue(SubSeq(s, 1, Len(s) - 1)) + DigitValue(s[Len(s)])

RECURSIVE StripZeros(_)
StripZeros(s) == IF s # <<>> /\ Head(s) = "0" THEN StripZeros(Tail(s)) ELSE s

\* u32::MAX, 4294967295, digit by digit.
U32MaxDigits == <<4, 2, 9, 4, 9, 6, 7, 2, 9, 5>>

\* Whether a run of digits denotes a number above u32::MAX.
OverflowsU32(digits) ==
    LET d == StripZeros(digits)
    IN  \/ Len(d) > Len(U32MaxDigits)
        \/ /\ Len(d) = Len(U32MaxDigits)
           /\ \E i \in 1..Len(d) :
                /\ \A j \in 1..(i - 1) : DigitValue(d[j]) = U32MaxDigits[j]
                /\ DigitValue(d[i]) > U32MaxDigits[i]

\* str::parse::<u32>: an optional "+", then one or more digits, within u32;
\* the set holding the value, or the empty set for a parse error.
ParseU32(s) ==
    LET body == IF s # <<>> /\ Head(s) = "+" THEN Tail(s) ELSE s
    IN  IF body = <<>> \/ \E i \in 1..Len(body) : body[i] \notin Digits
        THEN {}
        ELSE IF OverflowsU32(body) THEN {} ELSE {DecimalValue(body)}

(***************************************************************************)
(* Maps (HashMap<String, _>) and vectors                                   *)
(***************************************************************************)
ContainsKey(m, k) == k \in DOMAIN m

MapInsert(m, k, v) == [n \in DOMAIN m \cup {k} |-> IF n = k THEN v ELSE m[n]]

\* The entry left in the map.
MapRemoveForgotten(m, k) == m

MapRemove(m, k) == [n \in DOMAIN m \ {k} |-> m[n]]

EmptyMap == [n \in {} |-> n]

Contains(v, x) == \E i \in 1..Len(v) : v[i] = x

Range(v) == {v[i] : i \in 1..Len(v)}

(***************************************************************************)
(* The device and the catalog                                              *)
(***************************************************************************)
SupportedArchs == {"arm64-v8a", "armeabi-v7a", "x86", "x86_64", "riscv64"}

\* get_arch: the set holding the architecture, or the empty set for Err.
GetArch(a) == IF a \in SupportedArchs THEN {a} ELSE {}

\* The bytes behind each url and what the archive collaborator unpacks from
\* them; Sha256Hex is a digest, so distinct bytes have distinct digests.
Sha256Hex(bytes) ==
    CASE bytes = "tar:a" -> "5e1a"
      [] bytes = "tar:b" -> "77b2"
      [] bytes = "tar:c" -> "0c3c"
      [] bytes = "tar:d" -> "d4d9"
      [] bytes = "tar:e" -> "e5f0"
      [] OTHER -> "ffff"

Artifact(u, bytes, paths) ==
    [url |-> u, sha256 |-> Sha256Hex(bytes), contents |-> paths]

Pkg(ver, api, deps, confl, archs) ==
    [version |-> ver, min_api |-> api, dependencies |-> deps,
     conflicts |-> confl, architectures |-> archs]

On(a, artifact) == [x \in {a} |-> artifact]

NameA == <<"a">>
NameB == <<"b">>
NameC == <<"c">>
NameD == <<"d">>
NameE == <<"e">>
NameX == <<"x">>

BinA == <<"b", "i", "n", "/", "a">>
BinB == <<"b", "i", "n", "/", "b">>
BinC == <<"b", "i", "n", "/", "c">>
BinE == <<"b", "i", "n", "/", "e">>
LibS == <<"l", "i", "b", "/", "s">>

None == {}
Some(x) == {x}

\* A diamond (a needs b and c, both need d); b conflicts with c; c needs d
\* and also declares it a conflict; c and d both ship lib/s; min_api is
\* absent (a), empty (b), met by some devices only (c), met by all (d).
CatalogDiamond ==
    (NameA :> Pkg("1.0", None, <<NameB, NameC>>, <<>>,
                  On("arm64-v8a", Artifact("u/a", "tar:a", <<BinA>>))))
    @@ (NameB :> Pkg("1.1", Some(<<>>), <<NameD>>, <<NameC>>,
                  On("arm64-v8a", Artifact("u/b", "tar:b", <<BinB>>))))
    @@ (NameC :> Pkg("1.2", Some(<<"2", "4">>), <<NameD>>, <<NameD>>,
                  On("arm64-v8a", Artifact("u/c", "tar:c", <<BinC, LibS>>))))
    @@ (NameD :> Pkg("1.3", Some(<<"2", "1">>), <<>>, <<>>,
                  On("arm64-v8a", Artifact("u/d", "tar:d", <<LibS>>))))

\* A cycle (a needs b, b needs a); c needing a and d, d published for
\* another architecture only; e needing x, which no catalog holds; min_api
\* blank (a) and not a number (b).
CatalogCycle ==
    (NameA :> Pkg("2.0", Some(<<" ">>), <<NameB>>, <<>>,
                  On("arm64-v8a", Artifact("u/a", "tar:a", <<BinA>>))))
    @@ (NameB :> Pkg("2.1", Some(<<"v", "2">>), <<NameA>>, <<>>,
                  On("arm64-v8a", Artifact("u/b", "tar:b", <<BinB>>))))
    @@ (NameC :> Pkg("2.2", None, <<NameA, NameD>>, <<>>,
                  On("arm64-v8a", Artifact("u/c", "tar:c", <<BinC, LibS>>))))
    @@ (NameD :> Pkg("2.3", None, <<>>, <<>>,
                  On("x86_64", Artifact("u/d", "tar:d", <<LibS>>))))
    @@ (NameE :> Pkg("2.4", None, <<NameX>>, <<>>,
                  On("arm64-v8a", Artifact("u/e", "tar:e", <<BinE>>))))

Catalogs == {CatalogDiamond, CatalogCycle}

DeviceArchs == {"arm64-v8a", "mips"}

DeviceApiLevels == {21, 24}

\* What the server may answer for a url: the published archive, or other bytes.
Served(u) ==
    CASE u = "u/a" -> {"tar:a", "junk"}
      [] u = "u/b" -> {"tar:b", "junk"}
      [] u = "u/c" -> {"tar:c", "junk"}
      [] u = "u/d" -> {"tar:d", "junk"}
      [] u = "u/e" -> {"tar:e", "junk"}
      [] OTHER -> {"junk"}

\* The files an archive holds, in the order it unpacks them.
Unpacked(bytes) ==
    CASE bytes = "tar:a" -> <<BinA>>
      [] bytes = "tar:b" -> <<BinB>>
      [] bytes = "tar:c" -> <<BinC, LibS>>
      [] bytes = "tar:d" -> <<LibS>>
      [] bytes = "tar:e" -> <<BinE>>
      [] OTHER -> <<>>

\* What the user may type on the command line and at a prompt.
Arguments == {NameA, NameB, NameC, NameD, NameE, NameX, <<"s">>}

Inputs == {<<"\n">>, <<"N", "o", "\n">>}

Procs == {1, 2}


(***************************************************************************)
(* Pure parts of the code                                                  *)
(***************************************************************************)
\* The test without its first clause: no match on a path boundary.
ContentMatchesBinOnly(content, query) ==
    \/ EndsWith(content, <<"b", "i", "n", "/">> \o query)
    \/ content = query

\* The test of find_package_by_content on one content path.
ContentMatches(content, query) ==
    \/ EndsWith(content, <<"/">> \o query)
    \/ EndsWith(content, <<"b", "i", "n", "/">> \o query)
    \/ content = query

\* find_package_by_content: the packages it can return, one per iteration
\* order of the HashMap; the empty set stands for None.
FindPackageByContent(r, a, query) ==
    IF GetArch(a) = {} THEN {}
    ELSE {n \in DOMAIN r :
            /\ ContainsKey(r[n].architectures, a)
            /\ \E i \in 1..Len(r[n].architectures[a].contents) :
                   ContentMatches(r[n].architectures[a].contents[i], query)}

\* The comparison of line 163 with its operands exchanged.
CheckApiCompatibilitySwapped(package, deviceApi) ==
    IF package.min_api = None THEN "ok"
    ELSE LET minApiStr == CHOOSE s \in package.min_api : TRUE
         IN  IF Trim(minApiStr) = <<>> THEN "ok"
             ELSE IF ParseU32(minApiStr) = {} THEN "invalid_min_api"
             ELSE IF (CHOOSE v \in ParseU32(minApiStr) : TRUE) < deviceApi
                  THEN "incompatible_api"
                  ELSE "ok"

\* check_api_compatibility: "ok", or the error it returns.
CheckApiCompatibility(package, deviceApi) ==
    IF package.min_api = None THEN "ok"
    ELSE LET minApiStr == CHOOSE s \in package.min_api : TRUE
         IN  IF Trim(minApiStr) = <<>> THEN "ok"
             ELSE IF ParseU32(minApiStr) = {} THEN "invalid_min_api"
             ELSE IF deviceApi < (CHOOSE v \in ParseU32(minApiStr) : TRUE)
                  THEN "incompatible_api"
                  ELSE "ok"

\* The answer that cancels at a prompt.
Declined(input) == ToLowercase(Trim(input)) \in {<<"n">>, <<"n", "o">>}

\* The short cut left out: an installed target is installed again.
AlreadyInstalledSkipped(installed, target) == FALSE

\* install_package's test "already installed".
AlreadyInstalled(installed, target) == ContainsKey(installed, target)

\* handle_conflicts: the installed packages among the declared conflicts.
ConflictsToRemove(package, installed) ==
    SelectSeq(package.conflicts, LAMBDA c : ContainsKey(installed, c))

\* The content list recorded for a package (nothing when it has no entry).
RecordedContents(name, installed) ==
    IF ContainsKey(installed, name) THEN installed[name].contents ELSE <<>>

\* remove_package_files: the files left once the first upto recorded paths
\* are processed (a path that does not exist is skipped).
RemovePackageFilesUpTo(name, installed, files, upto) ==
    files \ {RecordedContents(name, installed)[i] : i \in 1..upto}

\* Removal by directory instead of by recorded path: every file under the
\* directories the package has files in goes.
RemovePackageFilesByDirectory(name, installed, files) ==
    {f \in files :
        \A i \in 1..Len(RecordedContents(name, installed)) :
            SubSeq(f, 1, 3) # SubSeq(RecordedContents(name, installed)[i], 1, 3)}

RemovePackageFiles(name, installed, files) ==
    RemovePackageFilesUpTo(name, installed, files,
                           Len(RecordedContents(name, installed)))

\* The removal loop of handle_conflicts over the staged list.
RECURSIVE RemoveConflicts(_, _, _)
RemoveConflicts(list, installed, files) ==
    IF list = <<>> THEN [installed |-> installed, fs |-> files]
    ELSE RemoveConflicts(Tail(list),
                         MapRemove(installed, Head(list)),
                         RemovePackageFiles(Head(list), installed, files))

\* The answer to the prompt looked at only after the removal loop.
CancelledAfterRemoval(staged, installed, files) ==
    RemoveConflicts(staged, installed, files)

\* handle_conflicts when the prompt is declined (lines 289-291): the ledger
\* snapshot and the files it returns Err with.
CancelledByConflicts(staged, installed, files) ==
    [installed |-> installed, fs |-> files]

\* The visited set never consulted.
NeverVisited(visited, pkgName) == FALSE

\* Every name taken as visited: no lookup in the catalog.
AlwaysVisited(visited, pkgName) == TRUE

\* resolve_recursive's test that returns at once (line 233).
AlreadyVisited(visited, pkgName) == pkgName \in visited

\* No dependency recursed into or pushed.
MustResolveNothing(dep, installed, toInstall) == FALSE

\* resolve_recursive's test on a dependency: recurse into it and push it.
MustResolve(dep, installed, toInstall) ==
    /\ ~ContainsKey(installed, dep)
    /\ ~Contains(toInstall, dep)

\* The digest computed and never compared.
ChecksumIgnored(bytes, architecture) == TRUE

\* The digest comparison of install_single_package.
ChecksumOk(bytes, architecture) == Sha256Hex(bytes) = architecture.sha256

\* The entry registered without the version the catalog gives.
InstalledPackageMisfiled(name, package, architecture) ==
    [name |-> name, version |-> "?", contents |-> architecture.contents]

\* The ledger entry install_single_package registers.
InstalledPackage(name, package, architecture) ==
    [name |-> name, version |-> package.version,
     contents |-> architecture.contents]

\* archive.unpack: the files on disk once the first upto entries are written.
UnpackUpTo(bytes, files, upto) ==
    files \cup {Unpacked(bytes)[i] : i \in 1..upto}

\* The document written without the entries of the snapshot.
SavedLedgerBlank(installed) == EmptyMap

\* save_installed_packages: the document written to installed.json.
SavedLedger(installed) == installed

\* get_installed_packages: the ledger read from installed.json.
LoadedLedger(document) == document


(***************************************************************************)
(* One invocation of the tool                                              *)
(*                                                                         *)
(* pc, cmd, name, noConfirm, target, installed, toInstall, visited, stack  *)
(* and queue are the locals of the running command.  start, fs0, entered,  *)
(* fetched, unpacked, writes, result, msg and again record what the        *)
(* invocation saw and did, for the properties below.                       *)
(***************************************************************************)
FreshTx ==
    [pc |-> "idle", cmd |-> "none", name |-> <<>>, noConfirm |-> FALSE,
     target |-> <<>>, installed |-> EmptyMap, toInstall |-> <<>>,
     visited |-> {}, stack |-> <<>>, queue |-> <<>>,
     start |-> EmptyMap, fs0 |-> {}, entered |-> <<>>, fetched |-> <<>>,
     unpacked |-> <<>>, writes |-> 0, result |-> "none", msg |-> "none",
     again |-> FALSE]

\* Whether the command now starting repeats the invocation just finished:
\* the same command and argument, right after that one succeeded in
\* installing or removing its target.
Repeats(t, command, name) ==
    /\ t.pc = "done"
    /\ t.cmd = command
    /\ t.name = name
    /\ t.result = "ok"
    /\ t.msg \in {"installed", "removed"}

\* A command starts: fetch_repo succeeded and the ledger file was read.
Started(t, command, name, nc) ==
    [FreshTx EXCEPT !.pc = "started", !.cmd = command, !.name = name,
                    !.noConfirm = nc, !.installed = LoadedLedger(disk),
                    !.start = disk, !.fs0 = fs,
                    !.again = Repeats(t, command, name)]

\* run returns: Ok(()) or Err(e), and main exits 0 or 1.
Finish(t, res, why) == [t EXCEPT !.pc = "done", !.result = res, !.msg = why]

Idle(p) == tx[p].pc \in {"idle", "done"}

Device == UNCHANGED <<repo, arch, apiLevel>>

(***************************************************************************)
(* install_package, lines 393-436: the target, the already-installed       *)
(* short cut and the compatibility check.                                  *)
(***************************************************************************)
InstallChecks(t, target) ==
    LET u == [t EXCEPT !.target = target]
    IN  IF AlreadyInstalled(u.installed, target)
        THEN Finish(u, "ok", "already_installed")
        ELSE IF CheckApiCompatibility(repo[target], apiLevel) # "ok"
        THEN Finish(u, "err", CheckApiCompatibility(repo[target], apiLevel))
        ELSE [u EXCEPT !.pc = "conflicts"]

InstallBegin(p) ==
    /\ Idle(p)
    /\ \E name \in Arguments, nc \in BOOLEAN :
         \/ \* fetch_repo fails
            tx' = [tx EXCEPT ![p] =
                     Finish([Started(tx[p], "install", name, nc)
                               EXCEPT !.installed = EmptyMap],
                            "err", "network")]
         \/ LET t == Started(tx[p], "install", name, nc)
            IN  IF ContainsKey(repo, name)
                THEN tx' = [tx EXCEPT ![p] = InstallChecks(t, name)]
                ELSE IF FindPackageByContent(repo, arch, name) = {}
                THEN tx' = [tx EXCEPT ![p] = Finish(t, "err", "not_found")]
                ELSE \E pkgName \in FindPackageByContent(repo, arch, name) :
                       IF nc
                       THEN tx' = [tx EXCEPT ![p] = InstallChecks(t, pkgName)]
                       ELSE \E input \in Inputs :
                              tx' = [tx EXCEPT ![p] =
                                       IF Declined(input)
                                       THEN Finish(t, "ok", "cancelled")
                                       ELSE InstallChecks(t, pkgName)]
    /\ UNCHANGED <<disk, fs>>
    /\ Device

(***************************************************************************)
(* handle_conflicts, lines 257-303.                                        *)
(***************************************************************************)
HandleConflicts(p) ==
    LET t == tx[p]
        staged == ConflictsToRemove(repo[t.target], t.installed)
        after == RemoveConflicts(staged, t.installed, fs)
        resolving == [t EXCEPT !.pc = "resolve",
                               !.stack = <<[pkg |-> t.target, i |-> 0,
                                            at |-> "call"]>>]
    IN  /\ t.pc = "conflicts"
        /\ IF staged = <<>>
           THEN /\ tx' = [tx EXCEPT ![p] = resolving]
                /\ UNCHANGED fs
           ELSE \/ \* the prompt is answered n or no
                   /\ ~t.noConfirm
                   /\ \E input \in Inputs : Declined(input)
                   /\ tx' = [tx EXCEPT ![p] =
                               Finish([t EXCEPT !.installed =
                                         CancelledByConflicts(
                                             staged, t.installed, fs).installed],
                                      "err", "conflict_cancelled")]
                   /\ fs' = CancelledByConflicts(staged, t.installed, fs).fs
                \/ \* unattended, or any other answer
                   /\ t.noConfirm \/ \E input \in Inputs : ~Declined(input)
                   /\ tx' = [tx EXCEPT ![p] =
                               [resolving EXCEPT !.installed = after.installed]]
                   /\ fs' = after.fs
                \/ \* fs::remove_file fails on the k-th file of the j-th conflict
                   /\ t.noConfirm \/ \E input \in Inputs : ~Declined(input)
                   /\ \E j \in 1..Len(staged) :
                        LET before == RemoveConflicts(SubSeq(staged, 1, j - 1),
                                                      t.installed, fs)
                            paths == RecordedContents(staged[j], before.installed)
                        IN  \E k \in 1..Len(paths) :
                              LET left == RemovePackageFilesUpTo(
                                              staged[j], before.installed,
                                              before.fs, k - 1)
                              IN  /\ paths[k] \in left
                                  /\ fs' = left
                   /\ tx' = [tx EXCEPT ![p] = Finish(t, "err", "io")]
        /\ UNCHANGED disk
        /\ Device


(***************************************************************************)
(* resolve_dependencies, lines 218-255.  The recursion of                  *)
(* resolve_recursive is run on an explicit stack of frames: pkg is the     *)
(* frame's pkg_name, i the position of its for loop in pkg's dependencies, *)
(* and at tells where the frame stands: "call" (entered, line 233 not yet  *)
(* run), "loop" (at the head of the for loop) or "ret" (the recursive call *)
(* of line 245 has returned Ok).                                           *)
(***************************************************************************)
Top(t) == t.stack[Len(t.stack)]

SetTop(t, frame) == [t EXCEPT !.stack[Len(t.stack)] = frame]

\* The top frame returns Ok(()): its caller resumes after line 245, or
\* resolve_dependencies returns Ok(to_install).
ReturnOk(t) ==
    IF Len(t.stack) = 1
    THEN [t EXCEPT !.stack = <<>>, !.pc = "confirm"]
    ELSE LET popped == [t EXCEPT !.stack = SubSeq(t.stack, 1, Len(t.stack) - 1)]
         IN  SetTop(popped, [Top(popped) EXCEPT !.at = "ret"])

\* Lines 233-241: the visited test, the insertion, the catalog lookup.
ResolveEnter(p) ==
    LET t == tx[p]
        f == Top(t)
    IN  /\ t.pc = "resolve"
        /\ f.at = "call"
        /\ tx' = [tx EXCEPT ![p] =
                    IF AlreadyVisited(t.visited, f.pkg)
                    THEN ReturnOk(t)
                    ELSE LET u == [t EXCEPT !.visited = @ \cup {f.pkg},
                                            !.entered = Append(@, f.pkg)]
                         IN  IF ~ContainsKey(repo, f.pkg)
                             THEN Finish(u, "err", "dependency_not_found")
                             ELSE SetTop(u, [f EXCEPT !.at = "loop", !.i = 1])]
        /\ UNCHANGED <<disk, fs>>
        /\ Device

\* Lines 243-245 and 250: one turn of the for loop, or its end.
ResolveIter(p) ==
    LET t == tx[p]
        f == Top(t)
        deps == repo[f.pkg].dependencies
    IN  /\ t.pc = "resolve"
        /\ f.at = "loop"
        /\ tx' = [tx EXCEPT ![p] =
                    IF f.i > Len(deps)
                    THEN ReturnOk(t)
                    ELSE IF MustResolve(deps[f.i], t.installed, t.toInstall)
                    THEN [t EXCEPT !.stack = Append(@, [pkg |-> deps[f.i],
                                                        i |-> 0,
                                                        at |-> "call"])]
                    ELSE SetTop(t, [f EXCEPT !.i = @ + 1])]
        /\ UNCHANGED <<disk, fs>>
        /\ Device

\* Line 246: to_install.push(dep) once the recursive call has returned.
ResolvePush(p) ==
    LET t == tx[p]
        f == Top(t)
        deps == repo[f.pkg].dependencies
    IN  /\ t.pc = "resolve"
        /\ f.at = "ret"
        /\ tx' = [tx EXCEPT ![p] =
                    SetTop([t EXCEPT !.toInstall = Append(@, deps[f.i])],
                           [f EXCEPT !.at = "loop", !.i = @ + 1])]
        /\ UNCHANGED <<disk, fs>>
        /\ Device

(***************************************************************************)
(* install_package, lines 445-496: get_arch for the size accounting and    *)
(* the main confirmation prompt.                                           *)
(***************************************************************************)
Confirm(p) ==
    LET t == tx[p]
    IN  /\ t.pc = "confirm"
        /\ IF GetArch(arch) = {}
           THEN tx' = [tx EXCEPT ![p] = Finish(t, "err", "arch_unsupported")]
           ELSE \E input \in Inputs :
                  tx' = [tx EXCEPT ![p] =
                           IF ~t.noConfirm /\ Declined(input)
                           THEN Finish(t, "ok", "cancelled")
                           ELSE [t EXCEPT !.pc = "installing",
                                          !.queue = Append(t.toInstall,
                                                           t.target)]]
        /\ UNCHANGED <<disk, fs>>
        /\ Device

(***************************************************************************)
(* install_single_package, lines 320-391, for the head of the batch        *)
(* (lines 502-522: the dependencies in order, then the target).            *)
(***************************************************************************)
\* The ledger saved after each package of the batch instead of at its end.
InstalledSavedAtOnce(t) == [t EXCEPT !.queue = Tail(@), !.pc = "persist"]

\* The batch moves on; after the target comes save_installed_packages.
Installed(t) ==
    [t EXCEPT !.queue = Tail(@),
              !.pc = IF Tail(t.queue) = <<>> THEN "persist" ELSE "installing"]

InstallSingle(p) ==
    LET t == tx[p]
        name == Head(t.queue)
    IN  /\ t.pc = "installing"
        /\ IF ~ContainsKey(repo, name)
           THEN /\ tx' = [tx EXCEPT ![p] = Finish(t, "err", "not_found")]
                /\ UNCHANGED fs
           ELSE IF GetArch(arch) = {}
           THEN /\ tx' = [tx EXCEPT ![p] = Finish(t, "err", "arch_unsupported")]
                /\ UNCHANGED fs
           ELSE IF ~ContainsKey(repo[name].architectures, arch)
           THEN /\ tx' = [tx EXCEPT ![p] = Finish(t, "err", "arch_unavailable")]
                /\ UNCHANGED fs
           ELSE LET architecture == repo[name].architectures[arch]
                IN  \/ \* reqwest::blocking::get or bytes() fails
                       /\ tx' = [tx EXCEPT ![p] = Finish(t, "err", "network")]
                       /\ UNCHANGED fs
                    \/ \E bytes \in Served(architecture.url) :
                         LET got == [t EXCEPT !.fetched =
                                           Append(@, [name |-> name,
                                                      bytes |-> bytes])]
                             run == [got EXCEPT !.unpacked = Append(@, name)]
                         IN  IF ~ChecksumOk(bytes, architecture)
                             THEN /\ tx' = [tx EXCEPT ![p] =
                                              Finish(got, "err", "checksum")]
                                  /\ UNCHANGED fs
                             ELSE \/ \* the temp file or the decoder fails
                                     /\ tx' = [tx EXCEPT ![p] =
                                                 Finish(got, "err", "extract")]
                                     /\ UNCHANGED fs
                                  \/ \* archive.unpack fails part way
                                     /\ \E k \in 0..(Len(Unpacked(bytes)) - 1) :
                                          fs' = UnpackUpTo(bytes, fs, k)
                                     /\ tx' = [tx EXCEPT ![p] =
                                                 Finish(run, "err", "extract")]
                                  \/ \* unpacked and registered
                                     /\ fs' = UnpackUpTo(bytes, fs,
                                                         Len(Unpacked(bytes)))
                                     /\ tx' = [tx EXCEPT ![p] =
                                          Installed([run EXCEPT !.installed =
                                            MapInsert(@, name,
                                              InstalledPackage(name, repo[name],
                                                               architecture))])]
        /\ UNCHANGED disk
        /\ Device

(***************************************************************************)
(* save_installed_packages, lines 173-181, as install_package (line 525)   *)
(* and uninstall_package (line 583) call it.                               *)
(***************************************************************************)
Persist(p) ==
    LET t == tx[p]
    IN  /\ t.pc = "persist"
        /\ \/ /\ disk' = SavedLedger(t.installed)
              /\ tx' = [tx EXCEPT ![p] =
                          Finish([t EXCEPT !.writes = @ + 1], "ok",
                                 IF t.cmd = "install" THEN "installed"
                                                      ELSE "removed")]
           \/ \* create_dir_all or fs::write fails
              /\ UNCHANGED disk
              /\ tx' = [tx EXCEPT ![p] = Finish(t, "err", "io")]
        /\ UNCHANGED fs
        /\ Device

(***************************************************************************)
(* uninstall_package, lines 534-590.                                       *)
(***************************************************************************)
UninstallBegin(p) ==
    /\ Idle(p)
    /\ \E name \in Arguments :
         \/ \* fetch_repo fails
            tx' = [tx EXCEPT ![p] =
                     Finish([Started(tx[p], "uninstall", name, FALSE)
                               EXCEPT !.installed = EmptyMap],
                            "err", "network")]
         \/ LET t == Started(tx[p], "uninstall", name, FALSE)
                removing(target) == [t EXCEPT !.target = target,
                                              !.pc = "remove"]
            IN  IF ContainsKey(t.installed, name)
                THEN tx' = [tx EXCEPT ![p] = removing(name)]
                ELSE IF FindPackageByContent(repo, arch, name) = {}
                THEN tx' = [tx EXCEPT ![p] = Finish(t, "err", "not_found")]
                ELSE \E pkgName \in FindPackageByContent(repo, arch, name) :
                       IF ~ContainsKey(t.installed, pkgName)
                       THEN tx' = [tx EXCEPT ![p] =
                                     Finish(t, "err", "not_installed")]
                       ELSE \E input \in Inputs :
                              tx' = [tx EXCEPT ![p] =
                                       IF Declined(input)
                                       THEN Finish(t, "ok", "cancelled")
                                       ELSE removing(pkgName)]
    /\ UNCHANGED <<disk, fs>>
    /\ Device

\* Lines 578-582: remove_package_files, then the entry leaves the snapshot.
UninstallRemove(p) ==
    LET t == tx[p]
        paths == RecordedContents(t.target, t.installed)
    IN  /\ t.pc = "remove"
        /\ \/ /\ fs' = RemovePackageFiles(t.target, t.installed, fs)
              /\ tx' = [tx EXCEPT ![p] =
                          [t EXCEPT !.installed = MapRemove(@, t.target),
                                    !.pc = "persist"]]
           \/ \* fs::remove_file fails on the k-th file
              /\ \E k \in 1..Len(paths) :
                   LET left == RemovePackageFilesUpTo(t.target, t.installed,
                                                      fs, k - 1)
                   IN  /\ paths[k] \in left
                       /\ fs' = left
              /\ tx' = [tx EXCEPT ![p] = Finish(t, "err", "io")]
        /\ UNCHANGED disk
        /\ Device

(***************************************************************************)
(* The tool run one invocation after another from a fresh device.          *)
(***************************************************************************)
Init ==
    /\ repo \in Catalogs
    /\ arch \in DeviceArchs
    /\ apiLevel \in DeviceApiLevels
    /\ disk = EmptyMap
    /\ fs = {}
    /\ tx = [p \in Procs |-> FreshTx]

Step(p) ==
    \/ InstallBegin(p)
    \/ HandleConflicts(p)
    \/ ResolveEnter(p)
    \/ ResolveIter(p)
    \/ ResolvePush(p)
    \/ Confirm(p)
    \/ InstallSingle(p)
    \/ Persist(p)
    \/ UninstallBegin(p)
    \/ UninstallRemove(p)

Next == Step(1)

Spec == Init /\ [][Next]_vars


(***************************************************************************)
(* resolve_dependencies on its own: every catalog of three packages whose  *)
(* dependency lists hold at most MaxDeps distinct names (one of them, x,   *)
(* in no catalog), and every ledger over the packages other than the       *)
(* target, as install_package calls it at line 442.                        *)
(***************************************************************************)
MaxDeps == 2

ResolverNames == {NameA, NameB, NameC}

\* The lists of at most MaxDeps distinct names.
DependencyLists ==
    {deps \in UNION {[1..n -> ResolverNames \cup {NameX}] : n \in 0..MaxDeps} :
        \A i, j \in 1..Len(deps) : deps[i] = deps[j] => i = j}

Plain(name, deps) ==
    Pkg("0", None, deps, <<>>,
        On("arm64-v8a", Artifact("u/a", "tar:a", <<>>)))

GenericCatalogs ==
    {[n \in ResolverNames |-> Plain(n, deps[n])] :
        deps \in [ResolverNames -> DependencyLists]}

Ledger(names) ==
    [n \in names |-> [name |-> n, version |-> "0", contents |-> <<>>]]

InitResolve ==
    /\ repo \in GenericCatalogs
    /\ arch = "arm64-v8a"
    /\ apiLevel = 21
    /\ disk \in {Ledger(names) : names \in SUBSET {NameB, NameC}}
    /\ fs = {}
    /\ tx = [p \in Procs |->
               IF p = 1
               THEN [FreshTx EXCEPT !.pc = "resolve", !.cmd = "install",
                                    !.name = NameA, !.target = NameA,
                                    !.noConfirm = TRUE,
                                    !.installed = disk, !.start = disk,
                                    !.stack = <<[pkg |-> NameA, i |-> 0,
                                                 at |-> "call"]>>]
               ELSE FreshTx]

NextResolve == ResolveEnter(1) \/ ResolveIter(1) \/ ResolvePush(1)

\* The command is one synchronous thread: while it can take a step, it does.
SpecResolve == InitResolve /\ [][NextResolve]_vars /\ WF_vars(NextResolve)


(***************************************************************************)
(* Two invocations of the tool at once on one device, each a process of    *)
(* its own that reads installed.json when it starts and writes it when it  *)
(* ends; nothing in the code locks the file.                               *)
(***************************************************************************)
InitConcurrent ==
    /\ repo = CatalogDiamond
    /\ arch = "arm64-v8a"
    /\ apiLevel = 24
    /\ disk \in {EmptyMap,
                 NameD :> InstalledPackage(NameD, CatalogDiamond[NameD],
                              CatalogDiamond[NameD].architectures["arm64-v8a"])}
    /\ fs = UNION {Range(disk[n].contents) : n \in DOMAIN disk}
    /\ tx = [p \in Procs |-> FreshTx]

NextConcurrent == \E p \in Procs : tx[p].pc # "done" /\ Step(p)

SpecConcurrent == InitConcurrent /\ [][NextConcurrent]_vars

(***************************************************************************)
(* find_package_by_content on its own: every catalog of two packages with  *)
(* at most MaxContents content paths each, the second package published    *)
(* for the device's architecture or for another one, and every query.      *)
(***************************************************************************)
MaxContents == 2

PathUsrBinL == <<"u", "/", "b", "i", "n", "/", "l">>
PathBinL == <<"b", "i", "n", "/", "l">>
PathL == <<"l">>
PathBinAL == <<"b", "i", "n", "/", "a", "l">>
PathLM == <<"l", "/", "m">>

LocatorPaths == {PathUsrBinL, PathBinL, PathL, PathBinAL, PathLM}

LocatorQueries ==
    {<<"l">>, <<"a", "l">>, <<"m">>, <<"u">>, <<>>,
     PathBinL, <<"n", "/", "l">>, PathLM}

ContentLists == UNION {[1..n -> LocatorPaths] : n \in 0..MaxContents}

LocatorCatalogs ==
    {(NameA :> Pkg("0", None, <<>>, <<>>,
                   On("arm64-v8a", Artifact("u/a", "tar:a", ca))))
     @@ (NameB :> Pkg("0", None, <<>>, <<>>,
                   On(ab, Artifact("u/b", "tar:b", cb)))) :
        ca \in ContentLists, cb \in ContentLists,
        ab \in {"arm64-v8a", "x86_64"}}

InitLocate ==
    /\ repo \in LocatorCatalogs
    /\ arch \in DeviceArchs
    /\ apiLevel = 21
    /\ disk = EmptyMap
    /\ fs = {}
    /\ \E query \in LocatorQueries :
         tx = [p \in Procs |->
                 IF p = 1
                 THEN [FreshTx EXCEPT !.pc = "locate", !.cmd = "locate",
                                      !.name = query]
                 ELSE FreshTx]

\* The call of find_package_by_content (lines 409 and 543) and its return:
\* Some(pkg_name) or None.
Locate(p) ==
    LET t == tx[p]
    IN  /\ t.pc = "locate"
        /\ IF FindPackageByContent(repo, arch, t.name) = {}
           THEN tx' = [tx EXCEPT ![p] = Finish(t, "ok", "none")]
           ELSE \E pkgName \in FindPackageByContent(repo, arch, t.name) :
                  tx' = [tx EXCEPT ![p] =
                           Finish([t EXCEPT !.target = pkgName], "ok", "some")]
        /\ UNCHANGED <<disk, fs>>
        /\ Device

NextLocate == Locate(1)

SpecLocate == InitLocate /\ [][NextLocate]_vars

(***************************************************************************)
(* Properties                                                              *)
(***************************************************************************)
\* The entry the catalog prescribes for a package on this device.
CatalogEntry(n) ==
    [name |-> n, version |-> repo[n].version,
     contents |-> repo[n].architectures[arch].contents]

\* The invocation changed neither the durable ledger nor a file, and
\* fetched and unpacked nothing.
Untouched(t) ==
    /\ disk = t.start
    /\ fs = t.fs0
    /\ t.fetched = <<>>
    /\ t.unpacked = <<>>
    /\ t.writes = 0

\* Nor did it change the ledger it holds in memory.
NoEffect(t) == t.installed = t.start /\ Untouched(t)

\* C1: an install whose target is already a key of the ledger ends at once
\* as a successful no-op: ledger (in memory and durable) and files
\* unchanged, nothing fetched, whatever the target's min_api, conflicts
\* and dependencies.
C1_InstalledTargetIsNoop ==
    \A p \in Procs :
        LET t == tx[p]
        IN  (t.cmd = "install" /\ t.target # <<>>
                /\ ContainsKey(t.start, t.target))
            => /\ t.pc = "done"
               /\ t.result = "ok"
               /\ t.msg = "already_installed"
               /\ NoEffect(t)

\* C1 witness: a no-op install of a target one of whose declared conflicts
\* is installed and whose min_api the device does not meet.
C1_Witness ==
    \E p \in Procs :
        LET t == tx[p]
        IN  /\ t.pc = "done"
            /\ t.msg = "already_installed"
            /\ ConflictsToRemove(repo[t.target], t.start) # <<>>
            /\ CheckApiCompatibility(repo[t.target], apiLevel) # "ok"
            /\ t.fs0 # {}

\* C2: when the bytes downloaded for a package do not hash to the declared
\* checksum, that download is the last thing the transaction does: it
\* ends in error, the archive is not unpacked, the package gets no entry
\* from this install, the durable ledger is untouched and the rest of the
\* batch stays uninstalled.
C2_ChecksumMismatchAborts ==
    \A p \in Procs :
        LET t == tx[p]
        IN  \A i \in 1..Len(t.fetched) :
              Sha256Hex(t.fetched[i].bytes)
                  # repo[t.fetched[i].name].architectures[arch].sha256
              => /\ i = Len(t.fetched)
                 /\ t.pc = "done"
                 /\ t.result = "err"
                 /\ t.msg = "checksum"
                 /\ Len(t.unpacked) = i - 1
                 /\ t.queue # <<>>
                 /\ Head(t.queue) = t.fetched[i].name
                 /\ ContainsKey(t.installed, t.fetched[i].name)
                      => Contains(t.unpacked, t.fetched[i].name)
                 /\ disk = t.start

\* C2 witness: a checksum failure on the target after its dependencies
\* were installed in the same batch.
C2_Witness ==
    \E p \in Procs :
        LET t == tx[p]
        IN  /\ t.pc = "done"
            /\ t.msg = "checksum"
            /\ Len(t.fetched) > 1
            /\ Len(t.queue) = 1

\* C3: after a successful install of a target that was not installed, the
\* durable ledger is the ledger read at the start without the installed
\* packages the target declares as conflicts, with the catalog's entry
\* (name, version, the architecture's content paths) for the target and
\* for each resolved dependency, and otherwise as it was.
C3_InstallLedger ==
    \A p \in Procs :
        LET t == tx[p]
            removed == Range(repo[t.target].conflicts) \cap DOMAIN t.start
            added == Range(t.toInstall) \cup {t.target}
        IN  (t.pc = "done" /\ t.cmd = "install" /\ t.msg = "installed")
            => /\ ~ContainsKey(t.start, t.target)
               /\ disk = [n \in (DOMAIN t.start \ removed) \cup added |->
                            IF n \in added THEN CatalogEntry(n)
                                           ELSE t.start[n]]

\* C3 witness: a successful install that removed a conflict, installed a
\* dependency and left another installed package alone.
C3_Witness ==
    \E p \in Procs :
        LET t == tx[p]
            removed == Range(repo[t.target].conflicts) \cap DOMAIN t.start
            added == Range(t.toInstall) \cup {t.target}
        IN  /\ t.pc = "done" /\ t.cmd = "install" /\ t.msg = "installed"
            /\ removed # {}
            /\ t.toInstall # <<>>
            /\ DOMAIN t.start \ (removed \cup added) # {}

\* The target's min_api parses as an integer above the device's API level.
ApiTooLow(n) ==
    \E s \in repo[n].min_api :
        \E v \in ParseU32(s) : v > apiLevel

\* C4: an install whose target is not installed and declares a min_api
\* that parses above the device's level fails with the incompatibility
\* error and without any effect; a target with no min_api or an empty one
\* never fails the compatibility check.
C4_ApiCheckFirst ==
    \A p \in Procs :
        LET t == tx[p]
        IN  (t.cmd = "install" /\ t.target # <<>>
                /\ ~ContainsKey(t.start, t.target))
            => /\ ApiTooLow(t.target)
                  => /\ t.pc = "done"
                     /\ t.result = "err"
                     /\ t.msg = "incompatible_api"
                     /\ NoEffect(t)
               /\ repo[t.target].min_api \in {None, Some(<<>>)}
                  => t.msg \notin {"incompatible_api", "invalid_min_api"}

\* C4 witness: the incompatibility error for a target one of whose declared
\* conflicts is installed, with its files on disk.
C4_Witness ==
    \E p \in Procs :
        LET t == tx[p]
        IN  /\ t.pc = "done"
            /\ t.msg = "incompatible_api"
            /\ ConflictsToRemove(repo[t.target], t.start) # <<>>
            /\ t.fs0 # {}


\* C5: a successful uninstall of P deletes the paths recorded in P's entry
\* (those that exist) and no other file, removes P's entry from the
\* durable ledger and leaves every other entry as it was, the entries of
\* packages that depend on P included.
C5_UninstallFrame ==
    \A p \in Procs :
        LET t == tx[p]
        IN  (t.pc = "done" /\ t.cmd = "uninstall" /\ t.msg = "removed")
            => /\ ContainsKey(t.start, t.target)
               /\ fs = t.fs0 \ Range(t.start[t.target].contents)
               /\ disk = [n \in DOMAIN t.start \ {t.target} |-> t.start[n]]

\* C5 witness: a successful uninstall of a package one of whose recorded
\* files was already gone, while a package that depends on it stays.
C5_Witness ==
    \E p \in Procs :
        LET t == tx[p]
        IN  /\ t.pc = "done" /\ t.cmd = "uninstall" /\ t.msg = "removed"
            /\ ~(Range(t.start[t.target].contents) \subseteq t.fs0)
            /\ \E n \in DOMAIN disk :
                 Contains(repo[n].dependencies, t.target)

\* The packages the second lookup of uninstall_package can return that
\* are installed.
InstalledProviders(t) ==
    FindPackageByContent(repo, arch, t.name) \cap DOMAIN t.start

\* C6 as stated: an uninstall repeated right after it succeeded ends
\* successfully and leaves ledger and files as they were.
C6_SecondUninstallSucceeds ==
    \A p \in Procs :
        LET t == tx[p]
        IN  (t.again /\ t.cmd = "uninstall")
            => /\ t.pc = "done"
               /\ t.result = "ok"
               /\ disk = t.start
               /\ fs = t.fs0

\* C6 as amended: when an uninstall is repeated right after it succeeded,
\* the name is no longer a key of the ledger and, unless it matches a
\* content path of a package that is installed, the second call ends at
\* once with an error (not installed, not found, or the catalog fetch
\* failing) and leaves ledger and files as the first call left them.
C6_SecondUninstallFails ==
    \A p \in Procs :
        LET t == tx[p]
        IN  (t.again /\ t.cmd = "uninstall")
            => /\ ~ContainsKey(t.start, t.name)
               /\ InstalledProviders(t) = {}
                  => /\ t.pc = "done"
                     /\ t.result = "err"
                     /\ t.msg \in {"not_installed", "not_found", "network"}
                     /\ Untouched(t)

\* C6 witness: the second uninstall of a package by its own name, ended
\* with the error that it is not installed.
C6_Witness ==
    \E p \in Procs :
        LET t == tx[p]
        IN  /\ t.again /\ t.cmd = "uninstall"
            /\ ContainsKey(repo, t.name)
            /\ t.pc = "done"
            /\ t.msg = "not_installed"
            /\ t.start # EmptyMap

\* C7 as stated: a resolved list holds no package name twice.
C7_ResolvedOnce ==
    \A p \in Procs :
        LET t == tx[p]
        IN  t.pc = "confirm"
            => \A i, j \in 1..Len(t.toInstall) :
                  t.toInstall[i] = t.toInstall[j] => i = j

\* A resolution never passes the visited test twice for one name, and
\* fails only on a name the catalog lacks.
EnteredOnce(t) ==
    /\ \A i, j \in 1..Len(t.entered) :
          t.entered[i] = t.entered[j] => i = j
    /\ t.result = "err"
          => /\ t.msg = "dependency_not_found"
             /\ ~ContainsKey(repo, t.entered[Len(t.entered)])

\* C8: for every catalog, cyclic ones included, resolve_dependencies comes
\* to an end, enters each package name at most once and reports no error
\* for a cycle.
C8_ResolveTerminates ==
    /\ [](\A p \in Procs : EnteredOnce(tx[p]))
    /\ <>(tx[1].pc # "resolve")

\* C8 witness: a resolution that returned Ok on a catalog in which two
\* packages it entered depend on each other.
C8_Witness ==
    \E p \in Procs :
        LET t == tx[p]
        IN  /\ t.pc = "confirm"
            /\ \E n, m \in Range(t.entered) :
                 /\ n # m
                 /\ Contains(repo[n].dependencies, m)
                 /\ Contains(repo[m].dependencies, n)

\* C9 as stated: when a transaction has written the durable ledger, every
\* path it lists is on disk.
C9_WrittenLedgerOnDisk ==
    \A p \in Procs :
        LET t == tx[p]
        IN  (t.pc = "done" /\ t.writes > 0)
            => \A n \in DOMAIN disk : Range(disk[n].contents) \subseteq fs

\* C10: an install that ends because the conflict prompt was declined had
\* installed conflicts to remove, was not unattended, and has no effect:
\* no file deleted, no entry removed, nothing fetched or unpacked, the
\* durable ledger not written.
C10_DeclinedConflictsNoEffect ==
    \A p \in Procs :
        LET t == tx[p]
        IN  t.msg = "conflict_cancelled"
            => /\ t.pc = "done"
               /\ t.result = "err"
               /\ ~t.noConfirm
               /\ ConflictsToRemove(repo[t.target], t.start) # <<>>
               /\ NoEffect(t)

\* C10 witness: the conflict prompt declined while the files of the
\* conflicting package are on disk.
C10_Witness ==
    \E p \in Procs :
        LET t == tx[p]
            staged == ConflictsToRemove(repo[t.target], t.start)
        IN  /\ t.msg = "conflict_cancelled"
            /\ \E i \in 1..Len(staged) :
                 Range(t.start[staged[i]].contents) \cap fs # {}

\* The errors install_single_package returns for one package of the batch.
PackageFailures ==
    {"not_found", "arch_unsupported", "arch_unavailable", "network",
     "checksum", "extract"}

\* The bytes fetched for a package hash to the checksum the catalog declares.
Verified(f) ==
    Sha256Hex(f.bytes) = repo[f.name].architectures[arch].sha256

\* C11: an install transaction writes the durable ledger at most once, and
\* only when every resolved dependency and then the target have been
\* fetched, verified, unpacked and registered; when the install of one
\* package of the batch fails, the durable ledger is as it was at the start
\* of the transaction, whatever was installed before in the batch.
C11_LedgerWrittenOnceAtEnd ==
    /\ [][\A p \in Procs :
            (tx[p].cmd = "install" /\ disk' # disk
                /\ tx'[p].writes # tx[p].writes)
            => LET t == tx[p]
                   batch == Append(t.toInstall, t.target)
               IN  /\ t.writes = 0
                   /\ tx'[p].writes = 1
                   /\ t.queue = <<>>
                   /\ t.unpacked = batch
                   /\ [i \in 1..Len(t.fetched) |-> t.fetched[i].name] = batch
                   /\ \A i \in 1..Len(t.fetched) : Verified(t.fetched[i])
                   /\ \A i \in 1..Len(batch) :
                         /\ ContainsKey(t.installed, batch[i])
                         /\ t.installed[batch[i]] = CatalogEntry(batch[i])
                   /\ disk' = t.installed]_vars
    /\ [](\A p \in Procs :
            LET t == tx[p]
            IN  /\ t.writes <= 1
                /\ (t.cmd = "install" /\ t.pc = "done" /\ t.queue # <<>>
                       /\ t.msg \in PackageFailures)
                   => /\ disk = t.start
                      /\ t.writes = 0)

\* C11 witness: a batch that failed on a later package after an earlier one
\* was unpacked and registered, its files on disk.
C11_Witness ==
    \E p \in Procs :
        LET t == tx[p]
        IN  /\ t.cmd = "install" /\ t.pc = "done"
            /\ t.msg \in PackageFailures
            /\ Len(t.unpacked) >= 1
            /\ ContainsKey(t.installed, t.unpacked[1])
            /\ ~ContainsKey(t.start, t.unpacked[1])
            /\ fs # t.fs0

\* C12: two invocations running at once are not safe.  Whoever writes
\* installed.json writes its own snapshot: the entries it read when it
\* started and still holds, and the entries it registered itself; what
\* another invocation wrote in between is lost.
C12_LastWriterWins ==
    [][\A p \in Procs :
          tx'[p].writes # tx[p].writes
          => LET t == tx[p]
             IN  /\ disk' = t.installed
                 /\ \A n \in DOMAIN disk' :
                       \/ Contains(t.unpacked, n)
                       \/ ContainsKey(t.start, n) /\ disk'[n] = t.start[n]
                 /\ \A n \in DOMAIN disk \ DOMAIN t.start :
                       ContainsKey(disk', n) => Contains(t.unpacked, n)]_vars

\* Both invocations have ended successfully, each having written the ledger.
BothSucceeded ==
    \A p \in Procs :
        /\ tx[p].pc = "done" /\ tx[p].result = "ok"
        /\ tx[p].msg \in {"installed", "removed"}

\* C12 witness: both invocations completed successfully and the durable
\* ledger lacks the package one of them installed.
C12_Witness ==
    /\ BothSucceeded
    /\ \E p \in Procs :
         /\ tx[p].msg = "installed"
         /\ ~ContainsKey(disk, tx[p].target)
         /\ \A q \in Procs : tx[q].cmd = "install"

\* Both completed successfully and the durable ledger still holds the
\* package one of them uninstalled, which the other never installed.
C12_UninstalledStillListed ==
    /\ BothSucceeded
    /\ \E p, q \in Procs :
         /\ tx[p].msg = "removed"
         /\ ContainsKey(disk, tx[p].target)
         /\ ~Contains(tx[q].unpacked, tx[p].target)

\* The declared dependencies of a name (none for a name the catalog lacks).
DependenciesOf(r, n) ==
    IF ContainsKey(r, n) THEN Range(r[n].dependencies) ELSE {}

\* The names reachable from a set of names through declared dependencies.
RECURSIVE DependencyClosure(_, _)
DependencyClosure(r, names) ==
    LET more == names \cup UNION {DependenciesOf(r, n) : n \in names}
    IN  IF more = names THEN names ELSE DependencyClosure(r, more)

\* The names a package depends on, directly or through other packages.
Requires(r, n) == DependencyClosure(r, DependenciesOf(r, n))

\* No package of the catalog depends on itself, directly or not.
Acyclic(r) == \A n \in DOMAIN r : n \notin Requires(r, n)

IsPrefix(s, t) == Len(s) <= Len(t) /\ s = SubSeq(t, 1, Len(s))

\* install_package unpacks the batch in the order of the resolved list,
\* the target last.
BatchUnpacksInOrder ==
    \A p \in Procs :
        tx[p].cmd = "install"
        => IsPrefix(tx[p].unpacked, Append(tx[p].toInstall, tx[p].target))

\* C13: on a catalog whose dependency relation is acyclic, when
\* resolve_dependencies has returned, in the resolved list followed by the
\* target every declared dependency of a package that is not in the ledger
\* stands before that package.
C13_TopologicalOrder ==
    \A p \in Procs :
        LET t == tx[p]
            order == Append(t.toInstall, t.target)
        IN  (t.cmd = "install" /\ t.pc = "confirm" /\ Acyclic(repo))
            => \A i \in 1..Len(order) :
                  \A dep \in DependenciesOf(repo, order[i]) :
                     ~ContainsKey(t.installed, dep)
                     => \E j \in 1..(i - 1) : order[j] = dep

\* C13 witness: a resolution on an acyclic catalog where the target needs
\* two packages that are not installed, the second of which needs the first.
C13_Witness ==
    \E p \in Procs :
        LET t == tx[p]
        IN  /\ t.pc = "confirm"
            /\ Acyclic(repo)
            /\ Len(t.toInstall) = 2
            /\ t.toInstall[1] \in DependenciesOf(repo, t.toInstall[2])
            /\ Range(t.toInstall) \subseteq DependenciesOf(repo, t.target)
            /\ repo[t.target].dependencies[1] = t.toInstall[2]

\* The names the traversal of resolve_recursive goes through from the
\* target: the declared dependencies, taken transitively, that the ledger
\* does not hold.
RECURSIVE Traversal(_, _, _)
Traversal(r, ledger, names) ==
    LET more == names \cup UNION {DependenciesOf(r, n) \ DOMAIN ledger :
                                     n \in names}
    IN  IF more = names THEN names ELSE Traversal(r, ledger, more)

\* The ledger resolve_dependencies is called with: the one read at the
\* start without the installed conflicts of the target.
LedgerResolved(t) ==
    [n \in DOMAIN t.start \ Range(repo[t.target].conflicts) |-> t.start[n]]

\* The traversal from the target reaches a name that neither the ledger
\* nor the catalog holds.
MissingDependency(t) ==
    Traversal(repo, LedgerResolved(t), {t.target}) \ DOMAIN repo # {}

\* C14: when the traversal from a target that is not installed reaches a
\* dependency that is in neither the ledger nor the catalog, the resolution
\* never returns a list: once it has run it has ended with the error that
\* the dependency is not found, and the install ends with an error having
\* fetched and unpacked nothing and not written the durable ledger.
C14_MissingDependencyFails ==
    \A p \in Procs :
        LET t == tx[p]
        IN  (t.cmd = "install" /\ t.target # <<>>
                /\ ~ContainsKey(t.start, t.target)
                /\ MissingDependency(t))
            => /\ t.pc \notin {"confirm", "installing", "persist"}
               /\ t.pc = "done" => t.result = "err"
               /\ (t.pc = "done" /\ t.entered # <<>>)
                     => /\ t.msg = "dependency_not_found"
                        /\ t.entered[Len(t.entered)] \notin DOMAIN repo
               /\ t.fetched = <<>>
               /\ t.unpacked = <<>>
               /\ t.writes = 0
               /\ disk = t.start

\* C14 witness: an install ended by the resolution failing on a dependency
\* that no catalog holds, on a device with packages installed.
C14_Witness ==
    \E p \in Procs :
        LET t == tx[p]
        IN  /\ t.cmd = "install" /\ t.pc = "done"
            /\ t.msg = "dependency_not_found"
            /\ MissingDependency(t)
            /\ t.start # EmptyMap

\* The install went past handle_conflicts and then ended before
\* save_installed_packages: the main prompt declined, the resolution or the
\* architecture lookup failing, or a package of the batch failing.
EndedBeforePersisting(t) ==
    /\ t.cmd = "install" /\ t.pc = "done"
    /\ t.entered # <<>>
    /\ t.msg \in {"cancelled", "dependency_not_found"} \cup PackageFailures

\* C15 as stated: when the installed conflicts of the target were removed
\* and the install then ended before persisting, each of them is left
\* removed: none of its recorded files is on disk and the durable ledger,
\* which the next invocation reads, has no entry for it.
C15_ConflictLeftRemoved ==
    \A p \in Procs :
        LET t == tx[p]
            staged == ConflictsToRemove(repo[t.target], t.start)
        IN  EndedBeforePersisting(t)
            => \A i \in 1..Len(staged) :
                  /\ Range(t.start[staged[i]].contents) \cap fs = {}
                  /\ ~ContainsKey(LoadedLedger(disk), staged[i])

\* What the code leaves: the files of the conflict deleted and not written
\* again, its entry gone from the snapshot in memory and still in
\* installed.json.
C15_EntryLeftInLedger ==
    \E p \in Procs :
        LET t == tx[p]
            staged == ConflictsToRemove(repo[t.target], t.start)
        IN  /\ EndedBeforePersisting(t)
            /\ t.msg = "cancelled"
            /\ staged # <<>>
            /\ \A i \in 1..Len(staged) :
                  /\ Range(t.start[staged[i]].contents) \cap t.fs0 # {}
                  /\ Range(t.start[staged[i]].contents) \cap fs = {}
                  /\ ~ContainsKey(t.installed, staged[i])
                  /\ ContainsKey(LoadedLedger(disk), staged[i])

\* The installed packages whose recorded content list matches the name
\* given to uninstall.
InstalledMatches(t) ==
    {n \in DOMAIN t.start :
        \E i \in 1..Len(t.start[n].contents) :
            ContentMatches(t.start[n].contents[i], t.name)}

\* C16 as stated: an uninstall whose name is not a key of the ledger while
\* the content list of an installed package matches it does not end with
\* the error that nothing is found or installed, and the target it settles
\* on is an installed package that provides the content, whichever
\* packages that are not installed match as well.
C16_UninstallByContent ==
    \A p \in Procs :
        LET t == tx[p]
        IN  (t.cmd = "uninstall" /\ t.msg # "network"
                /\ ~ContainsKey(t.start, t.name)
                /\ InstalledMatches(t) # {})
            => /\ t.msg \notin {"not_installed", "not_found"}
               /\ t.target # <<>> => t.target \in InstalledMatches(t)

\* What the code does: with an installed provider of the content, the
\* lookup over the whole catalog returned a package that is not installed
\* and the uninstall ended with an error, nothing removed.
C16_ProviderNotInstalled ==
    \E p \in Procs :
        LET t == tx[p]
        IN  /\ t.cmd = "uninstall" /\ t.pc = "done"
            /\ InstalledMatches(t) # {}
            /\ t.msg = "not_installed"
            /\ Untouched(t)

\* The part of a path after its last "/".
RECURSIVE FinalSegment(_)
FinalSegment(path) ==
    IF \E i \in 1..Len(path) : path[i] = "/"
    THEN FinalSegment(Tail(path))
    ELSE path

\* The packages with an artifact for the device's architecture one of whose
\* content paths satisfies a test against the query.
Providers(Test(_, _), query) ==
    {n \in DOMAIN repo :
        \E a \in GetArch(arch) :
            /\ ContainsKey(repo[n].architectures, a)
            /\ \E i \in 1..Len(repo[n].architectures[a].contents) :
                   Test(repo[n].architectures[a].contents[i], query)}

\* A content path equal to the query or whose final segment is the query.
NamesQuery(content, query) ==
    content = query \/ FinalSegment(content) = query

\* A content path equal to the query, or ending with the query after a "/",
\* or ending with the query after "bin/".
EndsInQuery(content, query) ==
    \/ content = query
    \/ EndsWith(content, <<"/">> \o query)
    \/ EndsWith(content, <<"b", "i", "n", "/">> \o query)

\* The lookup has returned.
Located(t) == t.cmd = "locate" /\ t.pc = "done"

\* C17 as stated: find_package_by_content returns a package only if a
\* content path of its artifact for the device's architecture equals the
\* query or has the query as its final segment, and returns none only if
\* no package of the catalog has such a path.
C17_MatchesFinalSegment ==
    \A p \in Procs :
        LET t == tx[p]
        IN  Located(t)
            => /\ t.msg = "some" => t.target \in Providers(NamesQuery, t.name)
               /\ t.msg = "none" => Providers(NamesQuery, t.name) = {}

\* C17 as amended: it returns a package only if one of that package's
\* content paths for the device's architecture equals the query or ends
\* with "/" or "bin/" followed by the query, which may span several path
\* segments, and none only if no package has such a path; a query of one
\* segment that is the final segment of a path is matched, and a package
\* no path of which ends in the query is never returned.
C17_MatchesPathSuffix ==
    \A p \in Procs :
        LET t == tx[p]
        IN  Located(t)
            => /\ t.msg = "some" => t.target \in Providers(EndsInQuery, t.name)
               /\ t.msg = "none" => Providers(EndsInQuery, t.name) = {}
               /\ t.msg = "none" => Providers(NamesQuery, t.name) = {}
               /\ t.msg = "some"
                     => \E a \in GetArch(arch) :
                          \E i \in 1..Len(repo[t.target].architectures[a].contents) :
                             EndsWith(repo[t.target].architectures[a].contents[i],
                                      t.name)

\* C17 witness: a query of several segments answered with a package whose
\* path ends with it without being it, while the other package, published
\* for this architecture too, has paths and none that matches.
C17_Witness ==
    \E p \in Procs :
        LET t == tx[p]
        IN  /\ Located(t)
            /\ t.msg = "some"
            /\ t.target \notin Providers(NamesQuery, t.name)
            /\ \E n \in DOMAIN repo \ {t.target} :
                 /\ ContainsKey(repo[n].architectures, arch)
                 /\ repo[n].architectures[arch].contents # <<>>
                 /\ n \notin Providers(EndsInQuery, t.name)

\* Every name of a list is a package of the catalog that the ledger does
\* not hold and that is not the target.
ToInstallBefore(list, ledger, target) ==
    \A i \in 1..Len(list) :
        /\ ContainsKey(repo, list[i])
        /\ ~ContainsKey(ledger, list[i])
        /\ list[i] # target

\* C18 as stated: when resolve_dependencies has returned a list, every name
\* in it is a catalog package that is not in the ledger and is not the
\* target, and the list is empty for a target without dependencies.
C18_ResolvedBeforeTarget ==
    \A p \in Procs :
        LET t == tx[p]
        IN  (t.cmd = "install" /\ t.pc = "confirm")
            => /\ ToInstallBefore(t.toInstall, t.installed, t.target)
               /\ repo[t.target].dependencies = <<>> => t.toInstall = <<>>

\* What holds on every catalog: the names are catalog packages not in the
\* ledger; and on an acyclic catalog none is the target.
C18_ResolvedNotInstalled ==
    \A p \in Procs :
        LET t == tx[p]
        IN  (t.cmd = "install" /\ t.pc = "confirm")
            => /\ \A i \in 1..Len(t.toInstall) :
                     /\ ContainsKey(repo, t.toInstall[i])
                     /\ ~ContainsKey(t.installed, t.toInstall[i])
               /\ Acyclic(repo)
                     => ToInstallBefore(t.toInstall, t.installed, t.target)
               /\ repo[t.target].dependencies = <<>> => t.toInstall = <<>>

\* C19 as stated: when an install of a target has succeeded, whatever
\* installs and uninstalls came before, every package the target requires,
\* directly or through other packages, is in the durable ledger.
C19_DependenciesInstalled ==
    \A p \in Procs :
        LET t == tx[p]
        IN  (t.cmd = "install" /\ t.pc = "done" /\ t.msg = "installed")
            => Requires(repo, t.target) \subseteq DOMAIN disk

\* What the code ensures: the ledger holds the target, its declared
\* dependencies, and the dependencies of every package this install
\* registered; behind a dependency that was installed before, it looks at
\* nothing.
C19_DirectDependenciesInstalled ==
    \A p \in Procs :
        LET t == tx[p]
        IN  (t.cmd = "install" /\ t.pc = "done" /\ t.msg = "installed")
            => \A n \in {t.target} \cup Range(t.unpacked) :
                  {n} \cup DependenciesOf(repo, n) \subseteq DOMAIN disk

\* A package the device can run: min_api absent, empty or blank, or an
\* integer not above the device's API level.
CompatibleWithDevice(n) ==
    \A s \in repo[n].min_api :
        \/ Trim(s) = <<>>
        \/ \E v \in ParseU32(s) : v <= apiLevel

\* C20 as stated: every package an install transaction unpacks and
\* registers, target or resolved dependency, is compatible with the device.
C20_InstalledCompatible ==
    \A p \in Procs :
        LET t == tx[p]
        IN  t.cmd = "install"
            => \A i \in 1..Len(t.unpacked) :
                  ContainsKey(t.installed, t.unpacked[i])
                  => CompatibleWithDevice(t.unpacked[i])

\* What the code ensures: the target of an install that unpacks anything
\* is compatible with the device.
C20_TargetCompatible ==
    \A p \in Procs :
        LET t == tx[p]
        IN  (t.cmd = "install" /\ t.unpacked # <<>>)
            => CompatibleWithDevice(t.target)

\* A successful install that registered a dependency whose min_api is an
\* integer above the device's API level.
C20_IncompatibleDependency ==
    \E p \in Procs :
        LET t == tx[p]
        IN  /\ t.cmd = "install" /\ t.pc = "done" /\ t.msg = "installed"
            /\ \E n \in Range(t.toInstall) :
                 /\ ApiTooLow(n)
                 /\ ContainsKey(disk, n)

\* C21 as stated: when an install of a target has succeeded, the durable
\* ledger holds no package the target declares as a conflict, a conflict
\* that the target also requires included.
C21_ConflictsAbsent ==
    \A p \in Procs :
        LET t == tx[p]
        IN  (t.cmd = "install" /\ t.pc = "done" /\ t.msg = "installed")
            => Range(repo[t.target].conflicts) \cap DOMAIN disk = {}

\* What the code ensures: after a successful install the declared
\* conflicts of the target in the ledger are those the resolution put in
\* the batch, and each of them was unpacked and registered by this install.
C21_ConflictsAbsentUnlessResolved ==
    \A p \in Procs :
        LET t == tx[p]
        IN  (t.cmd = "install" /\ t.pc = "done" /\ t.msg = "installed")
            => /\ Range(repo[t.target].conflicts) \cap DOMAIN disk
                    = Range(repo[t.target].conflicts) \cap Range(t.toInstall)
               /\ \A n \in Range(repo[t.target].conflicts) \cap DOMAIN disk :
                     /\ Contains(t.unpacked, n)
                     /\ disk[n] = CatalogEntry(n)

\* A successful install that removed an installed conflict of the target
\* and installed it again as a dependency of the target.
C21_ConflictReinstalled ==
    \E p \in Procs :
        LET t == tx[p]
        IN  /\ t.cmd = "install" /\ t.pc = "done" /\ t.msg = "installed"
            /\ \E n \in Range(repo[t.target].conflicts) :
                 /\ ContainsKey(t.start, n)
                 /\ n \in DependenciesOf(repo, t.target)
                 /\ ContainsKey(disk, n)

====
